---- MODULE Spec2Model ----
(***************************************************************************)
(* A model of snippety: the snippet data-access layer (models.SnippetModel *)
(* with Insert, Get and Latest over the `snippets` table), and the process *)
(* start-up (main, openDB, newTemplateCache).                              *)
(*                                                                         *)
(* Spec        : the SnippetModel operations against the table, with the   *)
(*               database clock advancing and statements failing.          *)
(* SpecStartup : main() from flag parsing to ListenAndServe or os.Exit.    *)
(***************************************************************************)
EXTENDS Integers, Sequences, FiniteSets, TLC

VARIABLES
    rows,       \* the `snippets` table: a set of rows, unique by id
    now,        \* UTC_TIMESTAMP() of the database server
    calls,      \* the Insert calls made since the model started
    ins,        \* the most recent Insert call: its arguments and what it returned
    ret,        \* the most recent SnippetModel call: its arguments and what it returned
    pc,         \* where main() is
    dsnOk,      \* sql.Open accepts the -dsn flag
    pingOk,     \* db.Ping reaches the server
    listenOk,   \* http.ListenAndServe can bind the address
    pages,      \* what filepath.Glob("./ui/html/pages/*.tmpl.html") matches, in order
    bad,        \* the template files that cannot be read or parsed
    db,         \* main's db handle: "none", "open" or "closed"
    cache,      \* main's templateCache (app.templateCache once serving)
    cacheErr,   \* the error newTemplateCache returned
    logged,     \* the logger.Error lines written
    exitCode,   \* the status given to os.Exit, -1 while running
    served      \* the requests accepted by the HTTP server

storeVars == <<rows, now, calls, ins, ret>>
startVars == <<pc, dsnOk, pingOk, listenOk, pages, bad, db, cache, cacheErr, logged, exitCode, served>>
vars == <<rows, now, calls, ins, ret, pc, dsnOk, pingOk, listenOk, pages, bad, db, cache, cacheErr,
          logged, exitCode, served>>

----------------------------------------------------------------------------
(* Bounds of the model. *)

MaxTime == 5        \* the clock runs 1..MaxTime
MaxInserts == 2     \* Insert calls made on top of the rows already stored
PreRows == 9        \* rows the table may already hold when the model starts
MaxPages == 2       \* page files under ./ui/html/pages
MaxRequests == 2    \* requests the server accepts before the model stops counting

----------------------------------------------------------------------------
(* The snippet store. *)

\* INTERVAL 1 DAY, in clock ticks: the clock is finer than a day.
DayTicks == 2

\* LIMIT 10 of Latest's statement.
LatestLimit == 10

\* Go's zero time.Time; the clock starts after it.
ZeroTime == 0

Titles == {"t3"}
Contents == {"c3"}
DayArgs == {1, 2}

Nil == "nil"
ErrNoRecord == "models: no matching record found"
ErrNoRows == "sql: no rows in result set"
ErrDriver == "driver: bad connection"
ErrScan == "sql: Scan error"

\* type Snippet struct; Snippet{} is its zero value.
Snippet(id, title, content, created, expires) ==
    [ID |-> id, Title |-> title, Content |-> content, Created |-> created, Expires |-> expires]

ZeroSnippet == Snippet(0, "", "", ZeroTime, ZeroTime)

\* id INT AUTO_INCREMENT PRIMARY KEY: the next identifier the table assigns.
NextId == IF rows = {} THEN 1
          ELSE (CHOOSE m \in {r.ID : r \in rows} : \A r \in rows : r.ID <= m) + 1

\* DATE_ADD(t, INTERVAL n DAY)
DateAdd(t, n) == t + n * DayTicks

\* Mutant: WHERE expires >= UTC_TIMESTAMP()
LiveOrExpiringNow(r) == r.Expires >= now

\* WHERE expires > UTC_TIMESTAMP()
Live(r) == r.Expires > now

\* Mutant: ORDER BY id ASC
RECURSIVE OrderByIdAsc(_)
OrderByIdAsc(S) ==
    IF S = {} THEN <<>>
    ELSE LET low == CHOOSE r \in S : \A q \in S : q.ID >= r.ID
         IN  <<low>> \o OrderByIdAsc(S \ {low})

\* ORDER BY id DESC over a set of rows
RECURSIVE OrderByIdDesc(_)
OrderByIdDesc(S) ==
    IF S = {} THEN <<>>
    ELSE LET top == CHOOSE r \in S : \A q \in S : q.ID <= r.ID
         IN  <<top>> \o OrderByIdDesc(S \ {top})

\* Mutant: the statement without its LIMIT clause
LimitDropped(s, n) == s

\* LIMIT n
Limit(s, n) == IF Len(s) <= n THEN s ELSE SubSeq(s, 1, n)

\* Mutant: the statement without its WHERE clause
LatestQueryAllRows == Limit(OrderByIdDesc(rows), LatestLimit)

\* The rows Latest's SELECT yields, in the order it yields them.
LatestQuery == Limit(OrderByIdDesc({r \in rows : Live(r)}), LatestLimit)

\* The rows Get's SELECT yields (at most one: id is the primary key).
GetQuery(id) == {r \in rows : Live(r) /\ r.ID = id}

\* Rows the table may hold when the process starts, written by earlier runs
\* with lifetimes of 1 and 2 days.
SeedRow(i) ==
    Snippet(i, IF i % 3 = 1 THEN "t1" ELSE "t2", "c1", 1, DateAdd(1, 1 + (i % 2)))

Seed(n) == {SeedRow(i) : i \in 1..n}

NoCall == [op |-> "none", arg |-> 0, fault |-> "none", val |-> 0, err |-> Nil, execs |-> 0]

NoInsert == [title |-> "", content |-> "", days |-> 0, at |-> 0, fault |-> "none",
             id |-> 0, err |-> Nil, before |-> {}]

\* What Insert returns: (0, nil) when Exec fails, (0, err) when LastInsertId
\* fails, (id, nil) otherwise.
InsertReturn(fault, id) ==
    CASE fault = "exec"         -> [id |-> 0, err |-> Nil]
      [] fault = "lastInsertId" -> [id |-> 0, err |-> ErrDriver]
      [] OTHER                  -> [id |-> id, err |-> Nil]

\* The row the INSERT statement writes.
InsertedRow(title, content, expires) ==
    Snippet(NextId, title, content, now, DateAdd(now, expires))

\* func (m *SnippetModel) Insert(title, content string, expires int) (int, error)
Insert(title, content, expires, fault) ==
    /\ calls < MaxInserts
    /\ rows' = IF fault = "exec" THEN rows
               ELSE rows \cup {InsertedRow(title, content, expires)}
    /\ calls' = calls + 1
    /\ LET r == InsertReturn(fault, NextId)
       IN  /\ ins' = [title |-> title, content |-> content, days |-> expires, at |-> now,
                      fault |-> fault, id |-> r.id, err |-> r.err, before |-> rows]
           /\ ret' = [op |-> "Insert", arg |-> expires, fault |-> fault, val |-> r.id,
                      err |-> r.err, execs |-> 1]
    /\ UNCHANGED now

\* The error Row.Scan hands to Get: the query's error, ErrNoRows when the
\* result set is empty, a conversion error, or nil.
GetScanErr(id, fault) ==
    CASE fault = "query"       -> ErrDriver
      [] GetQuery(id) = {}     -> ErrNoRows
      [] fault = "scan"        -> ErrScan
      [] OTHER                 -> Nil

\* Mutant: every error is reported as ErrNoRecord
GetReturnAlwaysNoRecord(err, s) ==
    IF err # Nil THEN [val |-> ZeroSnippet, err |-> ErrNoRecord]
    ELSE [val |-> s, err |-> Nil]

\* What Get returns for the error Scan gave and the row it scanned.
GetReturn(err, s) ==
    IF err # Nil
    THEN IF err = ErrNoRows THEN [val |-> ZeroSnippet, err |-> ErrNoRecord]
                            ELSE [val |-> ZeroSnippet, err |-> err]
    ELSE [val |-> s, err |-> Nil]

\* func (m *SnippetModel) Get(id int) (Snippet, error)
Get(id, fault) ==
    /\ fault = "scan" => GetQuery(id) # {}
    /\ LET err == GetScanErr(id, fault)
           s == IF err = Nil THEN CHOOSE r \in GetQuery(id) : TRUE
                ELSE IF err = ErrScan
                     THEN [ZeroSnippet EXCEPT !.ID = (CHOOSE r \in GetQuery(id) : TRUE).ID]
                     ELSE ZeroSnippet
           r == GetReturn(err, s)
       IN  ret' = [op |-> "Get", arg |-> id, fault |-> fault, val |-> r.val, err |-> r.err,
                   execs |-> 1]
    /\ UNCHANGED <<rows, now, calls, ins>>

\* What Latest returns: (nil, err) when Query, a Scan or rows.Err fails,
\* (snippets, nil) otherwise; a nil slice is the empty sequence.
LatestReturn(fault, snippets) ==
    CASE fault = "query" -> [val |-> <<>>, err |-> ErrDriver]
      [] fault = "scan"  -> [val |-> <<>>, err |-> ErrScan]
      [] fault = "rows"  -> [val |-> <<>>, err |-> ErrDriver]
      [] OTHER           -> [val |-> snippets, err |-> Nil]

\* func (m *SnippetModel) Latest() ([]Snippet, error)
Latest(fault) ==
    /\ fault = "scan" => LatestQuery # <<>>
    /\ LET r == LatestReturn(fault, LatestQuery)
       IN  ret' = [op |-> "Latest", arg |-> 0, fault |-> fault, val |-> r.val, err |-> r.err,
                   execs |-> 1]
    /\ UNCHANGED <<rows, now, calls, ins>>

\* The database server's clock advances; ret holds what a call made at the
\* current clock reading returned.
Tick ==
    /\ now < MaxTime
    /\ now' = now + 1
    /\ ret' = NoCall
    /\ UNCHANGED <<rows, calls, ins>>

InsertFaults == {"none", "exec", "lastInsertId"}
GetFaults == {"none", "query", "scan"}
LatestFaults == {"none", "query", "scan", "rows"}

\* The identifiers Get is asked for: 0, the oldest, the newest three, and the
\* one not assigned yet.
GetArgs == {0, 1} \cup {i \in (NextId - 3)..NextId : i >= 0}

StoreInit ==
    /\ rows \in {Seed(0), Seed(PreRows)}
    /\ now = 1
    /\ calls = 0
    /\ ins = NoInsert
    /\ ret = NoCall

DoInsert == \E t \in Titles, c \in Contents, d \in DayArgs, f \in InsertFaults : Insert(t, c, d, f)
DoGet == \E id \in GetArgs, f \in GetFaults : Get(id, f)
DoLatest == \E f \in LatestFaults : Latest(f)

----------------------------------------------------------------------------
(* Process start-up: main, openDB, newTemplateCache. *)

\* An error value of the start-up code: what failed, and on which file.
Err(kind, file) == [kind |-> kind, file |-> file]
NilErr == Err("nil", <<>>)

\* A file path is the sequence of its segments.
BaseFile == <<"ui", "html", "base.tmpl.html">>
PartialsGlob == <<"ui", "html", "partials", "*.tmpl.html">>
PageFile(n) == <<"ui", "html", "pages", n>>

\* The page files that may exist, in the lexical order Glob returns them in.
PageNames == <<"create.tmpl.html", "home.tmpl.html", "view.tmpl.html">>

\* filepath.Base: the last segment of a path.
Base(path) == path[Len(path)]

\* var functions = template.FuncMap{"humanDate": humanDate}
functions == {"humanDate"}

\* A Go map: nil, or a function from its keys to its values.
NilMap == [isNil |-> TRUE, m |-> <<>>]
EmptyMap == [isNil |-> FALSE, m |-> <<>>]
MapPut(c, k, v) ==
    [isNil |-> FALSE, m |-> [x \in (DOMAIN c.m) \cup {k} |-> IF x = k THEN v ELSE c.m[x]]]

\* One iteration of the loop of newTemplateCache: the template set of a page,
\* parsed from the base layout, the partials and the page file, in that order.
ParsePage(page) ==
    LET name == Base(page)
    IN  IF BaseFile \in bad THEN [ts |-> <<>>, name |-> name, err |-> Err("parse", BaseFile)]
        ELSE IF PartialsGlob \in bad
             THEN [ts |-> <<>>, name |-> name, err |-> Err("parse", PartialsGlob)]
        ELSE IF page \in bad THEN [ts |-> <<>>, name |-> name, err |-> Err("parse", page)]
        ELSE [ts |-> [name |-> name, funcs |-> functions,
                      files |-> <<BaseFile, PartialsGlob, page>>],
              name |-> name, err |-> NilErr]

\* Mutant: on an error the loop returns the cache built so far with the error
RECURSIVE ParsePagesKeepingCache(_, _)
ParsePagesKeepingCache(ps, c) ==
    IF ps = <<>> THEN [cache |-> c, err |-> NilErr]
    ELSE LET r == ParsePage(Head(ps))
         IN  IF r.err # NilErr THEN [cache |-> c, err |-> r.err]
             ELSE ParsePagesKeepingCache(Tail(ps), MapPut(c, r.name, r.ts))

\* The loop of newTemplateCache over the pages left, with the cache built so far.
RECURSIVE ParsePages(_, _)
ParsePages(ps, c) ==
    IF ps = <<>> THEN [cache |-> c, err |-> NilErr]
    ELSE LET r == ParsePage(Head(ps))
         IN  IF r.err # NilErr THEN [cache |-> NilMap, err |-> r.err]
             ELSE ParsePages(Tail(ps), MapPut(c, r.name, r.ts))

\* func newTemplateCache() (map[string]*template.Template, error)
\* (Glob fails on a malformed pattern only, and the pattern is a constant.)
newTemplateCache == ParsePages(pages, EmptyMap)

\* Mutant: openDB without the Ping
openDBWithoutPing ==
    IF ~dsnOk THEN [db |-> "none", err |-> Err("open", <<>>)]
    ELSE [db |-> "open", err |-> NilErr]

\* func openDB(dsn string) (*sql.DB, error)
openDB ==
    IF ~dsnOk THEN [db |-> "none", err |-> Err("open", <<>>)]
    ELSE IF ~pingOk THEN [db |-> "closed", err |-> Err("ping", <<>>)]
    ELSE [db |-> "open", err |-> NilErr]

\* logger.Error(err.Error()); os.Exit(1)
Fatal(err) ==
    /\ logged' = Append(logged, err)
    /\ exitCode' = 1
    /\ pc' = "exited"

\* main: db, err := openDB(*dsn)
MainOpenDB ==
    /\ pc = "start"
    /\ LET r == openDB
       IN  /\ db' = r.db
           /\ IF r.err # NilErr THEN Fatal(r.err)
              ELSE /\ pc' = "db"
                   /\ UNCHANGED <<logged, exitCode>>
    /\ UNCHANGED <<dsnOk, pingOk, listenOk, pages, bad, cache, cacheErr, served>>

\* main: templateCache, err := newTemplateCache()
MainTemplateCache ==
    /\ pc = "db"
    /\ LET r == newTemplateCache
       IN  /\ cache' = r.cache
           /\ cacheErr' = r.err
           /\ IF r.err # NilErr THEN Fatal(r.err)
              ELSE /\ pc' = "cache"
                   /\ UNCHANGED <<logged, exitCode>>
    /\ UNCHANGED <<dsnOk, pingOk, listenOk, pages, bad, db, served>>

\* main: err = http.ListenAndServe(*addr, app.routes()), when it cannot bind
\* it returns at once.
MainListen ==
    /\ pc = "cache"
    /\ IF listenOk
       THEN /\ pc' = "serving"
            /\ UNCHANGED <<logged, exitCode>>
       ELSE Fatal(Err("listen", <<>>))
    /\ UNCHANGED <<dsnOk, pingOk, listenOk, pages, bad, db, cache, cacheErr, served>>

\* The server accepts a request.
Serve ==
    /\ pc = "serving"
    /\ served < MaxRequests
    /\ served' = served + 1
    /\ UNCHANGED <<pc, dsnOk, pingOk, listenOk, pages, bad, db, cache, cacheErr, logged, exitCode>>

\* http.ListenAndServe returns (its error is never nil); main logs it and exits.
ServerStops ==
    /\ pc = "serving"
    /\ Fatal(Err("serve", <<>>))
    /\ UNCHANGED <<dsnOk, pingOk, listenOk, pages, bad, db, cache, cacheErr, served>>

\* The subsequences of s of length at most n.
RECURSIVE SubSeqs(_, _)
SubSeqs(s, n) ==
    IF s = <<>> \/ n = 0 THEN {<<>>}
    ELSE SubSeqs(Tail(s), n) \cup {<<Head(s)>> \o t : t \in SubSeqs(Tail(s), n - 1)}

AllFiles == {BaseFile, PartialsGlob} \cup {PageFile(PageNames[i]) : i \in 1..Len(PageNames)}

StartIdle ==
    /\ pc = "idle" /\ dsnOk = TRUE /\ pingOk = TRUE /\ listenOk = TRUE
    /\ pages = <<>> /\ bad = {} /\ db = "none" /\ cache = NilMap /\ cacheErr = NilErr
    /\ logged = <<>> /\ exitCode = -1 /\ served = 0

StoreIdle ==
    /\ rows = {} /\ now = 1 /\ calls = 0 /\ ins = NoInsert /\ ret = NoCall

StartInit ==
    /\ pc = "start"
    /\ dsnOk \in BOOLEAN /\ pingOk \in BOOLEAN /\ listenOk \in BOOLEAN
    /\ pages \in {[i \in 1..Len(ns) |-> PageFile(ns[i])] : ns \in SubSeqs(PageNames, MaxPages)}
    /\ bad \in SUBSET AllFiles
    /\ db = "none" /\ cache = NilMap /\ cacheErr = NilErr
    /\ logged = <<>> /\ exitCode = -1 /\ served = 0

Init == StoreInit /\ StartIdle

Next ==
    \/ DoInsert /\ UNCHANGED startVars
    \/ DoGet /\ UNCHANGED startVars
    \/ DoLatest /\ UNCHANGED startVars
    \/ Tick /\ UNCHANGED startVars

Spec == Init /\ [][Next]_vars

InitStartup == StoreIdle /\ StartInit

NextStartup ==
    \/ MainOpenDB /\ UNCHANGED storeVars
    \/ MainTemplateCache /\ UNCHANGED storeVars
    \/ MainListen /\ UNCHANGED storeVars
    \/ Serve /\ UNCHANGED storeVars
    \/ ServerStops /\ UNCHANGED storeVars

SpecStartup == InitStartup /\ [][NextStartup]_vars

----------------------------------------------------------------------------
(* The claims about the snippet store, checked under Spec.  In a state with *)
(* ret.op = "Get" or "Latest", rows and now are the table and the clock the *)
(* call ran against: Insert and Tick both overwrite ret.                    *)

\* C1 as stated: Get(id) returns a nil error if and only if a row with that
\* id is stored whose expires is strictly later than the clock; on success
\* the Snippet returned is that row; with no such row Get returns
\* ErrNoRecord and the zero Snippet.
C1_GetSucceedsIffLiveRecord ==
    ret.op = "Get" =>
        LET live == {r \in rows : r.ID = ret.arg /\ r.Expires > now}
        IN  /\ ret.err = Nil <=> live # {}
            /\ ret.err = Nil => ret.val \in live
            /\ live = {} => ret.err = ErrNoRecord /\ ret.val = ZeroSnippet

\* C1 as amended: the same, for a Get whose query and row scan meet no
\* data-access failure.
C1_GetSucceedsIffLiveRecordUnlessStoreFails ==
    (ret.op = "Get" /\ ret.fault = "none") =>
        LET live == {r \in rows : r.ID = ret.arg /\ r.Expires > now}
        IN  /\ ret.err = Nil <=> live # {}
            /\ ret.err = Nil => ret.val \in live
            /\ live = {} => ret.err = ErrNoRecord /\ ret.val = ZeroSnippet

\* A Get of a stored, expired row was refused after time has passed.
C1_Witness ==
    /\ ret.op = "Get" /\ ret.fault = "none" /\ ret.err = ErrNoRecord
    /\ \E r \in rows : r.ID = ret.arg /\ r.Expires = now /\ r.Created < now

\* C2: an Insert whose INSERT statement or whose LastInsertId fails returns
\* a non-nil error, never (0, nil), and executes the statement once.
C2_InsertFailureIsReturned ==
    (ret.op = "Insert" /\ ret.fault # "none") =>
        /\ ret.err # Nil
        /\ ~(ret.val = 0 /\ ret.err = Nil)
        /\ ret.execs = 1

\* C3: an Insert(title, content, N) that returned a nil error returned the id
\* of the row it stored, with created = the clock at the insert and expires
\* = created + N days, and a Get of that id before the expiry returns it.
C3_InsertThenGetRoundTrip ==
    (calls > 0 /\ ins.err = Nil) =>
        LET stored == Snippet(ins.id, ins.title, ins.content, ins.at,
                              ins.at + ins.days * DayTicks)
        IN  /\ stored \in rows /\ stored \notin ins.before
            /\ rows \ ins.before = {stored}
            /\ (ret.op = "Get" /\ ret.arg = ins.id /\ now < stored.Expires) =>
                   (ret.err = Nil /\ ret.val = stored)

\* C4: a Latest that returned a nil error returned at most 10 snippets, in
\* strictly descending order of ID.
C4_LatestAtMostTenStrictlyDescending ==
    (ret.op = "Latest" /\ ret.err = Nil) =>
        /\ Len(ret.val) <= 10
        /\ \A i \in 1..(Len(ret.val) - 1) : ret.val[i].ID > ret.val[i + 1].ID

\* Latest returned 10 snippets with more than 10 live rows stored.
C4_Witness ==
    /\ ret.op = "Latest" /\ ret.err = Nil /\ Len(ret.val) = 10
    /\ Cardinality({r \in rows : r.Expires > now}) > 10

\* C5 as stated: every entry Latest returns is a stored row whose expires is
\* strictly later than the clock; with no row stored, or every stored row
\* expired, Latest returns the empty sequence and a nil error.
C5_LatestOnlyLiveAndEmptyIsNoError ==
    ret.op = "Latest" =>
        /\ \A i \in 1..Len(ret.val) : ret.val[i] \in rows /\ ret.val[i].Expires > now
        /\ (\A r \in rows : r.Expires <= now) => (ret.val = <<>> /\ ret.err = Nil)

\* C5 as amended: the empty sequence comes with a nil error when the query
\* itself meets no data-access failure.
C5_LatestOnlyLiveAndEmptyIsNoErrorUnlessStoreFails ==
    ret.op = "Latest" =>
        /\ \A i \in 1..Len(ret.val) : ret.val[i] \in rows /\ ret.val[i].Expires > now
        /\ ((\A r \in rows : r.Expires <= now) /\ ret.fault = "none") =>
               (ret.val = <<>> /\ ret.err = Nil)

\* Latest returned some rows and left out a stored row that had expired.
C5_Witness ==
    /\ ret.op = "Latest" /\ ret.err = Nil /\ ret.val # <<>>
    /\ \E r \in rows : r.Expires <= now

\* C8: ErrNoRecord comes from Get alone, and only when no live row has the
\* id; a Get whose query or scan fails returns that failure's error, which
\* is not ErrNoRecord, and the zero Snippet.
C8_NoRecordOnlyFromGetWithoutLiveRow ==
    /\ ret.err = ErrNoRecord =>
           (ret.op = "Get" /\ ~\E r \in rows : r.ID = ret.arg /\ r.Expires > now)
    /\ (ret.op = "Get" /\ ret.fault = "query") =>
           (ret.err = ErrDriver /\ ret.val = ZeroSnippet)
    /\ (ret.op = "Get" /\ ret.fault = "scan") =>
           (ret.err = ErrScan /\ ret.val = ZeroSnippet)
    /\ ret.op \in {"Insert", "Latest"} => ret.err # ErrNoRecord

\* A Get of a live row failed in the scan and returned the scan's error.
C8_Witness ==
    /\ ret.op = "Get" /\ ret.fault = "scan" /\ ret.err = ErrScan
    /\ \E r \in rows : r.ID = ret.arg /\ r.Expires > now

\* C9: Get and Latest leave the table as it is; an Insert that returns a nil
\* error adds exactly one row; no call removes or changes a stored row.
C9_RowsOnlyGrowByOnePerInsert ==
    [][/\ rows \subseteq rows'
       /\ ret'.op \in {"Get", "Latest"} => rows' = rows
       /\ (ret'.op = "Insert" /\ calls' = calls + 1 /\ ret'.err = Nil) =>
              \E r \in rows' \ rows : rows' = rows \cup {r}]_vars

\* C10 as stated: Latest returns min(10, L) snippets, L the number of live
\* rows; they are live rows, every live row left out has an ID below every
\* ID returned, and the first is a live row created last.
C10_LatestIsTheNewestLive ==
    ret.op = "Latest" =>
        LET live == {r \in rows : r.Expires > now}
            n == IF Cardinality(live) < 10 THEN Cardinality(live) ELSE 10
            got == {ret.val[i] : i \in 1..Len(ret.val)}
        IN  /\ Len(ret.val) = n
            /\ got \subseteq live
            /\ \A r \in live \ got : \A g \in got : r.ID < g.ID
            /\ live # {} => \A r \in live : r.Created <= ret.val[1].Created /\ r.ID <= ret.val[1].ID

\* C10 as amended: the same, of a Latest that returned a nil error.
C10_SuccessfulLatestIsTheNewestLive ==
    (ret.op = "Latest" /\ ret.err = Nil) =>
        LET live == {r \in rows : r.Expires > now}
            n == IF Cardinality(live) < 10 THEN Cardinality(live) ELSE 10
            got == {ret.val[i] : i \in 1..Len(ret.val)}
        IN  /\ Len(ret.val) = n
            /\ got \subseteq live
            /\ \A r \in live \ got : \A g \in got : r.ID < g.ID
            /\ live # {} => \A r \in live : r.Created <= ret.val[1].Created /\ r.ID <= ret.val[1].ID

\* Latest left out a live row: more than 10 were live, the newest one added
\* by an Insert after the clock had advanced.
C10_Witness ==
    /\ ret.op = "Latest" /\ ret.err = Nil
    /\ \E r \in rows : r.Expires > now /\ \A i \in 1..Len(ret.val) : ret.val[i] # r
    /\ ret.val[1].Created > 1

----------------------------------------------------------------------------
(* The claims about start-up, checked under SpecStartup. *)

\* C6: once newTemplateCache has returned: if the base layout, the partials
\* or a matched page file cannot be parsed, it returned a nil cache and the
\* error of the first file that failed, however many pages were parsed before;
\* if it returned a nil error, the cache holds one template set per matched
\* page file, keyed by the file's last path segment, and no other key.
C6_TemplateCacheAllOrNothing ==
    (pc \in {"cache", "serving"} \/ (pc = "exited" /\ dsnOk /\ pingOk)) =>
        LET n == Len(pages)
            fails == n > 0 /\ (\E f \in bad : f \in {BaseFile, PartialsGlob}
                                              \/ \E i \in 1..n : pages[i] = f)
            firstBad == IF BaseFile \in bad THEN BaseFile
                        ELSE IF PartialsGlob \in bad THEN PartialsGlob
                        ELSE pages[CHOOSE i \in 1..n :
                                     /\ pages[i] \in bad
                                     /\ \A j \in 1..(i - 1) : pages[j] \notin bad]
        IN  /\ fails => (cache.isNil /\ cache.m = <<>> /\ cacheErr = Err("parse", firstBad))
            /\ cacheErr = NilErr =>
                   /\ ~fails
                   /\ ~cache.isNil
                   /\ DOMAIN cache.m = {pages[i][4] : i \in 1..n}
                   /\ \A i \in 1..n :
                          /\ cache.m[pages[i][4]].name = pages[i][4]
                          /\ cache.m[pages[i][4]].files = <<BaseFile, PartialsGlob, pages[i]>>

\* The second page failed to parse after the first had been parsed: the
\* cache returned is nil.
C6_Witness ==
    /\ pc = "exited" /\ dsnOk /\ pingOk
    /\ Len(pages) = 2 /\ pages[1] \notin bad /\ pages[2] \in bad
    /\ BaseFile \notin bad /\ PartialsGlob \notin bad
    /\ cache.isNil /\ cacheErr = Err("parse", pages[2])

\* C7: the server listens and serves only with the database opened and
\* pinged and the template cache built without error; when openDB or
\* newTemplateCache fails, main logs that error and exits with status 1, and
\* no request is ever served.
C7_ServesOnlyAfterDatabaseAndTemplates ==
    LET n == Len(pages)
        fails == n > 0 /\ (\E f \in bad : f \in {BaseFile, PartialsGlob}
                                          \/ \E i \in 1..n : pages[i] = f)
    IN  /\ (pc = "serving" \/ served > 0) =>
               /\ dsnOk /\ pingOk /\ db = "open"
               /\ ~fails /\ cacheErr = NilErr /\ ~cache.isNil
        /\ ((~dsnOk \/ ~pingOk) /\ pc # "start") =>
               /\ pc = "exited" /\ exitCode = 1 /\ served = 0
               /\ Len(logged) = 1 /\ logged[1].kind = (IF dsnOk THEN "ping" ELSE "open")
        /\ (dsnOk /\ pingOk /\ fails /\ pc \notin {"start", "db"}) =>
               /\ pc = "exited" /\ exitCode = 1 /\ served = 0
               /\ Len(logged) = 1 /\ logged[1].kind = "parse"
        /\ exitCode \in {-1, 1}
        /\ served > 0 => (pc = "serving" \/ (pc = "exited" /\ logged[1].kind = "serve"))

\* The server has served a request, with two pages in the template cache.
C7_Witness ==
    /\ pc = "serving" /\ served > 0
    /\ ~cache.isNil /\ Cardinality(DOMAIN cache.m) = 2

====
